---- MODULE Spec2Model ----
(***************************************************************************)
(* A model of cronbeats_python: PingClient (client.py), its error taxonomy *)
(* (errors.py) and the transport contract HttpClient (http.py).            *)
(*                                                                         *)
(* Representation.  A Python str is a tuple of one-character strings, so   *)
(* that strip/lower/rstrip, slicing, the job-key pattern and the f-string  *)
(* concatenations are computed character by character.  Error codes and    *)
(* dict keys, which the code only passes around whole, are TLA+ strings.   *)
(* Optional values are tuples of length <= 1: None is <<>>, x is <<x>>.    *)
(* A JSON text is its document: an object with typed members, another      *)
(* JSON value, or a text that is not JSON.                                 *)
(***************************************************************************)
EXTENDS Integers, Sequences, FiniteSets, TLC

VARIABLES
    ctor,      \* the call PingClient(job_key, options): its arguments and its result
    client,    \* None, or the attributes __init__ set
    frame      \* per call in flight: the locals of the facade method and _request

vars == <<ctor, client, frame>>

None == <<>>
Some(x) == <<x>>

----------------------------------------------------------------------------
(* Bounds of the model *)

\* the largest max_retries option given to the constructor
MaxRetries == 2

----------------------------------------------------------------------------
(* str helpers *)

UpperChars == <<"A","B","C","D","E","F","G","H","I","J","K","L","M",
                "N","O","P","Q","R","S","T","U","V","W","X","Y","Z">>
LowerChars == <<"a","b","c","d","e","f","g","h","i","j","k","l","m",
                "n","o","p","q","r","s","t","u","v","w","x","y","z">>
DigitChars == <<"0","1","2","3","4","5","6","7","8","9">>

Range(s) == {s[i] : i \in DOMAIN s}

\* the characters str.strip() removes, among those the model uses
Whitespace == {" ", "\t", "\n", "\r"}

\* str.lower() on one character
LowerChar(ch) ==
    IF ch \in Range(UpperChars)
    THEN LowerChars[CHOOSE i \in DOMAIN UpperChars : UpperChars[i] = ch]
    ELSE ch

\* str.lower()
Lower(s) == [i \in DOMAIN s |-> LowerChar(s[i])]

\* s[a-1 : b] of Python, 1-based and inclusive here; empty when a > b
Slice(s, a, b) == [i \in 1..(b - a + 1) |-> s[a + i - 1]]

\* str.strip(): drop leading and trailing whitespace
Strip(s) ==
    LET keep == {i \in DOMAIN s : s[i] \notin Whitespace}
    IN  IF keep = {} THEN <<>>
        ELSE LET lo == CHOOSE i \in keep : \A j \in keep : i <= j
                 hi == CHOOSE i \in keep : \A j \in keep : i >= j
             IN  Slice(s, lo, hi)

\* str.rstrip("/"): drop every trailing "/"
RStripSlash(s) ==
    LET keep == {i \in DOMAIN s : s[i] # "/"}
    IN  IF keep = {} THEN <<>>
        ELSE Slice(s, 1, CHOOSE i \in keep : \A j \in keep : i >= j)

\* str(n) of a non-negative int
RECURSIVE NatToStr(_)
NatToStr(n) ==
    IF n < 10 THEN <<DigitChars[n + 1]>>
    ELSE NatToStr(n \div 10) \o <<DigitChars[(n % 10) + 1]>>

\* str(n) of an int
IntToStr(n) == IF n < 0 THEN <<"-">> \o NatToStr(-n) ELSE NatToStr(n)

\* a str of n copies of ch
Repeat(ch, n) == [i \in 1..n |-> ch]

----------------------------------------------------------------------------
(* PingClient.__init__ and _assert_job_key *)

KeyLen == 8

DefaultMaxRetries == 2
DefaultTimeoutMs == 5000
DefaultBackoffMs == 250
DefaultJitterMs == 100

S_default_base_url ==
    <<"h","t","t","p","s",":","/","/","c","r","o","n","b","e","a","t","s",".","i","o">>
S_default_user_agent ==
    <<"c","r","o","n","b","e","a","t","s","-","p","y","t","h","o","n","-",
      "s","d","k","/","0",".","1",".","0">>

\* a faulty JobKeyMatches: re.match for re.fullmatch, so that the pattern may
\* end before the key does
JobKeyMatches_Prefix(job_key) ==
    /\ Len(job_key) >= KeyLen
    /\ \A i \in 1..KeyLen :
          job_key[i] \in Range(LowerChars) \cup Range(UpperChars) \cup Range(DigitChars)

\* re.fullmatch(r"[a-zA-Z0-9]{8}", job_key)
JobKeyMatches(job_key) ==
    /\ Len(job_key) = KeyLen
    /\ \A i \in DOMAIN job_key :
          job_key[i] \in Range(LowerChars) \cup Range(UpperChars) \cup Range(DigitChars)

\* _assert_job_key: the exception it raises, or None
assert_job_key(job_key) ==
    IF ~JobKeyMatches(job_key) THEN Some("ValidationError") ELSE None

\* the attributes __init__ sets from (job_key, options); an option not given
\* is None and takes its default
NewClient(job_key, opts) ==
    [ job_key          |-> job_key,
      base_url         |-> RStripSlash(IF opts.base_url = None
                                       THEN S_default_base_url ELSE opts.base_url[1]),
      timeout_ms       |-> IF opts.timeout_ms = None
                           THEN DefaultTimeoutMs ELSE opts.timeout_ms[1],
      max_retries      |-> IF opts.max_retries = None
                           THEN DefaultMaxRetries ELSE opts.max_retries[1],
      retry_backoff_ms |-> IF opts.retry_backoff_ms = None
                           THEN DefaultBackoffMs ELSE opts.retry_backoff_ms[1],
      retry_jitter_ms  |-> IF opts.retry_jitter_ms = None
                           THEN DefaultJitterMs ELSE opts.retry_jitter_ms[1],
      user_agent       |-> IF opts.user_agent = None
                           THEN S_default_user_agent ELSE opts.user_agent[1] ]

----------------------------------------------------------------------------
(* Python values and JSON texts *)

\* Python values as the code meets them.  An int is m * 10^e (m one digit
\* or small, e >= 0), so that an integer beyond the range of a float can be
\* written; a float is m * 10^e.
PyStrV(s) == [t |-> "str", v |-> s]
PyInt(m, e) == [t |-> "int", m |-> m, e |-> e]
PyFloatV(m, e) == [t |-> "float", m |-> m, e |-> e]
PyBool(b) == [t |-> "bool", v |-> b]
PyNone == [t |-> "NoneType"]
PyList == [t |-> "list"]

\* a dict is a function from its keys; {} is the empty function
EmptyDict == <<>>
HasKey(d, k) == k \in DOMAIN d
\* dict.get(k, default)
Get(d, k, default) == IF HasKey(d, k) THEN d[k] ELSE default

\* JSON texts: an object with members, a value that is no object, or a text
\* that is not JSON at all.  Number literals keep whether they are written
\* as an integer (no fraction, no exponent).
JObject(members) == [j |-> "object", members |-> members]
JString(s) == [j |-> "string", v |-> s]
JNumber(m, e, isint) == [j |-> "number", m |-> m, e |-> e, isint |-> isint]
JNull == [j |-> "null"]
JTrue == [j |-> "true"]
JFalse == [j |-> "false"]
JArray == [j |-> "array"]
\* arrays nested deeper than the decoder recurses: "[[[[ ... "
JDeep == [j |-> "deep"]
NotJson == [j |-> "invalid"]

\* the Python value json.loads builds for one JSON value (objects: see json_loads)
FromJson(x) ==
    CASE x.j = "string" -> PyStrV(x.v)
      [] x.j = "number" -> IF x.isint THEN PyInt(x.m, x.e) ELSE PyFloatV(x.m, x.e)
      [] x.j = "null"   -> PyNone
      [] x.j = "true"   -> PyBool(TRUE)
      [] x.j = "false"  -> PyBool(FALSE)
      [] x.j = "array"  -> PyList

\* the JSON value json.dumps writes for one Python value
ToJson(v) ==
    CASE v.t = "str"      -> JString(v.v)
      [] v.t = "int"      -> JNumber(v.m, v.e, TRUE)
      [] v.t = "float"    -> JNumber(v.m, v.e, FALSE)
      [] v.t = "NoneType" -> JNull
      [] v.t = "bool"     -> IF v.v THEN JTrue ELSE JFalse

Abs(n) == IF n < 0 THEN -n ELSE n

\* the digits an int literal may have (sys.int_info.default_max_str_digits):
\* json.loads hands an integer literal to int(), which raises ValueError
\* on a longer one
IntMaxStrDigits == 4300

\* x is an integer literal of more than IntMaxStrDigits digits
TooManyDigits(x) ==
    x.j = "number" /\ x.isint /\ x.m # 0 /\ Len(NatToStr(Abs(x.m))) + x.e > IntMaxStrDigits

\* json.loads(raw): [exc |-> None, v |-> value] or [exc |-> <<exception class>>].
\* It raises JSONDecodeError on a text that is not JSON, ValueError on an
\* integer literal of too many digits, and RecursionError on nesting deeper
\* than the recursion limit.
json_loads(raw) ==
    CASE raw.j = "invalid" -> [exc |-> Some("JSONDecodeError")]
      [] raw.j = "deep"    -> [exc |-> Some("RecursionError")]
      [] raw.j = "object"  ->
            IF \E k \in DOMAIN raw.members : TooManyDigits(raw.members[k])
            THEN [exc |-> Some("ValueError")]
            ELSE [exc |-> None,
                  v |-> [t |-> "dict",
                         d |-> [k \in DOMAIN raw.members |-> FromJson(raw.members[k])]]]
      [] TooManyDigits(raw) -> [exc |-> Some("ValueError")]
      [] OTHER -> [exc |-> None, v |-> FromJson(raw)]

\* json.dumps(payload, separators=(",", ":")) of a dict
json_dumps(payload) == JObject([k \in DOMAIN payload |-> ToJson(payload[k])])

\* the largest power of ten a float holds: float(10**308) is a float,
\* float(10**309) raises OverflowError
FloatMaxExp10 == 308

\* float(x): [exc |-> None, v |-> float] or [exc |-> <<exception class>>]
PyFloat(x) ==
    CASE x.t = "float" -> [exc |-> None, v |-> x]
      [] x.t = "int"   ->
            IF x.m # 0 /\ (x.e > FloatMaxExp10 \/ (x.e = FloatMaxExp10 /\ Abs(x.m) >= 2))
            THEN [exc |-> Some("OverflowError")]
            ELSE [exc |-> None, v |-> PyFloatV(x.m, x.e)]
      [] x.t = "bool"  -> [exc |-> None, v |-> PyFloatV(IF x.v THEN 1 ELSE 0, 0)]
      [] x.t \in {"NoneType", "list", "dict"} -> [exc |-> Some("TypeError")]

S_None == <<"N","o","n","e">>
S_True == <<"T","r","u","e">>
S_False == <<"F","a","l","s","e">>

\* str(x)
PyStr(x) ==
    CASE x.t = "str"      -> x.v
      [] x.t = "int"      -> IF x.m = 0 THEN <<"0">> ELSE IntToStr(x.m) \o Repeat("0", x.e)
      [] x.t = "NoneType" -> S_None
      [] x.t = "bool"     -> IF x.v THEN S_True ELSE S_False

----------------------------------------------------------------------------
(* Results of a call: what it returned or raised (errors.py) *)

\* the str literals of client.py
S_ping ==
    <<"p","i","n","g">>
S_start ==
    <<"s","t","a","r","t">>
S_end ==
    <<"e","n","d">>
S_progress ==
    <<"p","r","o","g","r","e","s","s">>
S_success ==
    <<"s","u","c","c","e","s","s">>
S_fail ==
    <<"f","a","i","l">>
S_POST ==
    <<"P","O","S","T">>
S_path_ping ==
    <<"/","p","i","n","g","/">>
S_path_start ==
    <<"/","s","t","a","r","t">>
S_path_end ==
    <<"/","e","n","d","/">>
S_path_progress ==
    <<"/","p","r","o","g","r","e","s","s">>
S_slash ==
    <<"/">>
S_application_json ==
    <<"a","p","p","l","i","c","a","t","i","o","n","/","j","s","o","n">>
S_msg_status ==
    <<"S","t","a","t","u","s"," ","m","u","s","t"," ","b","e"," ","\"","s",
      "u","c","c","e","s","s","\""," ","o","r"," ","\"","f","a","i","l","\"",
      ".">>
S_msg_seq ==
    <<"P","r","o","g","r","e","s","s"," ","s","e","q"," ","m","u","s","t"," ",
      "b","e"," ","a"," ","n","o","n","-","n","e","g","a","t","i","v","e"," ",
      "i","n","t","e","g","e","r",".">>
S_msg_job_key ==
    <<"j","o","b","K","e","y"," ","m","u","s","t"," ","b","e"," ","e","x","a",
      "c","t","l","y"," ","8"," ","B","a","s","e","6","2"," ","c","h","a","r",
      "a","c","t","e","r","s",".">>
S_request_failed ==
    <<"R","e","q","u","e","s","t"," ","f","a","i","l","e","d">>
S_invalid_json ==
    <<"I","n","v","a","l","i","d"," ","J","S","O","N"," ","r","e","s","p","o",
      "n","s","e">>

NoResult == [kind |-> "none"]
Returned(v) == [kind |-> "return", value |-> v]
\* ValidationError(message), SdkError(message) and exceptions of the runtime
RaisedExc(cls, message) == [kind |-> "raise", exc |-> cls, message |-> message]
\* ApiError(code, message, http_status, retryable, raw)
RaisedApiError(code, message, http_status, retryable, raw) ==
    [kind |-> "raise", exc |-> "ApiError", code |-> code, message |-> message,
     http_status |-> http_status, retryable |-> retryable, raw |-> raw]

\* the classes errors.py defines: ValidationError and ApiError derive from SdkError
TypedFailures == {"ValidationError", "ApiError", "SdkError"}

----------------------------------------------------------------------------
(* The facade: ping, start, end, success, fail, progress *)

\* what a facade method does before _request: it raises, or it calls
\* _request(action, path, body)
FacadeRaise(cls, message) == [raise |-> Some(RaisedExc(cls, message))]
FacadeRequest(action, path, body) ==
    [raise |-> None, action |-> action, path |-> path, body |-> body]

ping(self) == FacadeRequest(S_ping, S_path_ping \o self.job_key, None)

start(self) == FacadeRequest(S_start, S_path_ping \o self.job_key \o S_path_start, None)

\* a faulty status_value: lowercased but not trimmed
status_value_NoStrip(status) == Lower(status)

\* status.strip().lower()
status_value(status) == Lower(Strip(status))

end(self, status) ==
    IF status_value(status) \notin {S_success, S_fail}
    THEN FacadeRaise("ValidationError", S_msg_status)
    ELSE FacadeRequest(S_end,
                       S_path_ping \o self.job_key \o S_path_end \o status_value(status),
                       None)

success(self) == end(self, S_success)

fail(self) == end(self, S_fail)

MaxMessageLen == 255

\* x or "" for an optional str
OrEmpty(x) == IF x = None \/ x[1] = <<>> THEN <<>> ELSE x[1]

\* a faulty progress_seq: a seq of 0 is taken for no seq
progress_seq_ZeroAbsent(seq_or_options) ==
    CASE seq_or_options.t = "int"  ->
            IF seq_or_options.m = 0 THEN None ELSE Some(seq_or_options.m)
      [] seq_or_options.t = "dict" ->
            LET seq_raw == Get(seq_or_options.d, "seq", PyNone)
            IN  IF seq_raw.t # "NoneType" /\ seq_raw.m # 0 THEN Some(seq_raw.m) ELSE None
      [] OTHER -> None

\* a faulty progress_seq: the seq of a structured input is not read
progress_seq_BareOnly(seq_or_options) ==
    CASE seq_or_options.t = "int"  -> Some(seq_or_options.m)
      [] OTHER -> None

\* the (seq, msg) pair progress resolves its input to: seq an optional int,
\* msg an optional str
progress_seq(seq_or_options) ==
    CASE seq_or_options.t = "int"  -> Some(seq_or_options.m)
      [] seq_or_options.t = "dict" ->
            LET seq_raw == Get(seq_or_options.d, "seq", PyNone)
            IN  IF seq_raw.t # "NoneType" THEN Some(seq_raw.m) ELSE None
      [] OTHER -> None

progress_msg(seq_or_options, message) ==
    IF seq_or_options.t = "dict"
    THEN Some(PyStr(Get(seq_or_options.d, "message", PyStrV(OrEmpty(message)))))
    ELSE message

\* a faulty safe_msg: a long message is cut to its last 255 characters
safe_msg_Tail(msg) ==
    IF Len(OrEmpty(msg)) > MaxMessageLen
    THEN Slice(OrEmpty(msg), Len(OrEmpty(msg)) - MaxMessageLen + 1, Len(OrEmpty(msg)))
    ELSE OrEmpty(msg)

\* safe_msg: str(msg or ""), cut to its first 255 characters
safe_msg(msg) ==
    IF Len(OrEmpty(msg)) > MaxMessageLen
    THEN Slice(OrEmpty(msg), 1, MaxMessageLen)
    ELSE OrEmpty(msg)

progress(self, seq_or_options, message) ==
    LET seq == progress_seq(seq_or_options)
        msg == progress_msg(seq_or_options, message)
    IN  IF seq # None /\ seq[1] < 0
        THEN FacadeRaise("ValidationError", S_msg_seq)
        ELSE IF seq # None
        THEN FacadeRequest(S_progress,
                           S_path_ping \o self.job_key \o S_path_progress
                               \o S_slash \o IntToStr(seq[1]),
                           Some([message |-> PyStrV(safe_msg(msg))]))
        ELSE FacadeRequest(S_progress,
                           S_path_ping \o self.job_key \o S_path_progress,
                           Some(IF seq_or_options.t = "int"
                                THEN [message |-> PyStrV(safe_msg(msg)),
                                      progress |-> seq_or_options]
                                ELSE [message |-> PyStrV(safe_msg(msg))]))

\* a call of the facade: [name |-> "ping"], [name |-> "end", status |-> s], ...
Facade(self, call) ==
    CASE call.name = "ping"     -> ping(self)
      [] call.name = "start"    -> start(self)
      [] call.name = "end"      -> end(self, call.status)
      [] call.name = "success"  -> success(self)
      [] call.name = "fail"     -> fail(self)
      [] call.name = "progress" -> progress(self, call.seq_or_options, call.message)

----------------------------------------------------------------------------
(* The request pipeline: _request and its helpers *)

\* a faulty map_error: the SERVER_ERROR row starts above 500 (> for >=)
map_error_Above500(status) ==
    IF status = 400 THEN [code |-> "VALIDATION_ERROR", retryable |-> FALSE]
    ELSE IF status = 404 THEN [code |-> "NOT_FOUND", retryable |-> FALSE]
    ELSE IF status = 429 THEN [code |-> "RATE_LIMITED", retryable |-> TRUE]
    ELSE IF status > 500 THEN [code |-> "SERVER_ERROR", retryable |-> TRUE]
    ELSE [code |-> "UNKNOWN_ERROR", retryable |-> FALSE]

\* a faulty map_error: 404 taken for a retryable status
map_error_404Retryable(status) ==
    IF status = 400 THEN [code |-> "VALIDATION_ERROR", retryable |-> FALSE]
    ELSE IF status = 404 THEN [code |-> "NOT_FOUND", retryable |-> TRUE]
    ELSE IF status = 429 THEN [code |-> "RATE_LIMITED", retryable |-> TRUE]
    ELSE IF status >= 500 THEN [code |-> "SERVER_ERROR", retryable |-> TRUE]
    ELSE [code |-> "UNKNOWN_ERROR", retryable |-> FALSE]

\* _map_error(status)
map_error(status) ==
    IF status = 400 THEN [code |-> "VALIDATION_ERROR", retryable |-> FALSE]
    ELSE IF status = 404 THEN [code |-> "NOT_FOUND", retryable |-> FALSE]
    ELSE IF status = 429 THEN [code |-> "RATE_LIMITED", retryable |-> TRUE]
    ELSE IF status >= 500 THEN [code |-> "SERVER_ERROR", retryable |-> TRUE]
    ELSE [code |-> "UNKNOWN_ERROR", retryable |-> FALSE]

\* _safe_json(raw): [exc |-> None, v |-> the decoded dict or the placeholder],
\* or [exc |-> <<exception class>>] when json.loads raises something other
\* than the JSONDecodeError its except clause names
safe_json(raw) ==
    LET decoded == json_loads(raw)
    IN  IF decoded.exc # None /\ decoded.exc[1] # "JSONDecodeError"
        THEN [exc |-> decoded.exc]
        ELSE IF decoded.exc = None /\ decoded.v.t = "dict"
        THEN [exc |-> None, v |-> decoded.v.d]
        ELSE [exc |-> None, v |-> [message |-> PyStrV(S_invalid_json)]]

\* _normalize_success(action, payload): the dict it returns, or the
\* exception float() raises that its except clause does not name
normalize_success(self, action, payload) ==
    LET processing == PyFloat(Get(payload, "processing_time_ms", PyFloatV(0, 0)))
        next_expected == Get(payload, "next_expected", PyNone)
    IN  IF processing.exc # None /\ processing.exc[1] \notin {"TypeError", "ValueError"}
        THEN RaisedExc(processing.exc[1], <<>>)
        ELSE Returned(
               [ ok               |-> TRUE,
                 action           |-> PyStr(Get(payload, "action", PyStrV(action))),
                 jobKey           |-> PyStr(Get(payload, "job_key", PyStrV(self.job_key))),
                 timestamp        |-> PyStr(Get(payload, "timestamp", PyStrV(<<>>))),
                 processingTimeMs |-> IF processing.exc = None
                                      THEN processing.v ELSE PyFloatV(0, 0),
                 nextExpected     |-> IF next_expected.t # "NoneType"
                                      THEN Some(PyStr(next_expected)) ELSE None,
                 raw              |-> payload ])

RECURSIVE Pow2(_)
Pow2(n) == IF n <= 0 THEN 1 ELSE 2 * Pow2(n - 1)

Max(a, b) == IF a >= b THEN a ELSE b

\* random.randint(0, max(0, retry_jitter_ms)) draws from this range
JitterRange(self) == 0 .. Max(0, self.retry_jitter_ms)

\* a faulty backoff_delay_ms: the exponent is attempt, not attempt - 1
backoff_delay_ms_Attempt(self, attempt, jitter_ms) ==
    self.retry_backoff_ms * Pow2(Max(0, attempt)) + jitter_ms

\* _sleep_with_backoff(attempt) with the jitter drawn: the milliseconds slept
backoff_delay_ms(self, attempt, jitter_ms) ==
    self.retry_backoff_ms * Pow2(Max(0, attempt - 1)) + jitter_ms

\* a faulty BuildRequest: the User-Agent of the SDK, not the configured one
BuildRequest_DefaultAgent(self, url, encoded_body) ==
    [ method     |-> S_POST,
      url        |-> url,
      headers    |-> [ContentType |-> S_application_json,
                      Accept      |-> S_application_json,
                      UserAgent   |-> S_default_user_agent],
      body       |-> encoded_body,
      timeout_ms |-> self.timeout_ms ]

\* the request _request hands to http_client.request
BuildRequest(self, url, encoded_body) ==
    [ method     |-> S_POST,
      url        |-> url,
      headers    |-> [ContentType |-> S_application_json,
                      Accept      |-> S_application_json,
                      UserAgent   |-> self.user_agent],
      body       |-> encoded_body,
      timeout_ms |-> self.timeout_ms ]

\* what _request decides on one transport outcome, with `attempt` retries
\* used so far: retry (sleeping first), or the result that ends the call
Retry == [retry |-> TRUE]
Finish(result) == [retry |-> FALSE, result |-> result]

\* a faulty OnTransportError: the budget test off by one (> for >=)
OnTransportError_OffByOne(self, attempt, outcome) ==
    IF attempt > self.max_retries
    THEN Finish(RaisedApiError("NETWORK_ERROR", outcome.text, None, TRUE, outcome))
    ELSE Retry

\* except SdkError: the transport raised
OnTransportError(self, attempt, outcome) ==
    IF attempt >= self.max_retries
    THEN Finish(RaisedApiError("NETWORK_ERROR", outcome.text, None, TRUE, outcome))
    ELSE Retry

\* a faulty OnResponse: the budget test off by one (<= for <)
OnResponse_OffByOne(self, action, attempt, outcome) ==
    LET safe == safe_json(outcome.body)
        decoded == safe.v
        status == outcome.status
        mapped == map_error(status)
    IN  IF safe.exc # None
        THEN Finish(RaisedExc(safe.exc[1], <<>>))
        ELSE IF 200 <= status /\ status < 300
        THEN Finish(normalize_success(self, action, decoded))
        ELSE IF mapped.retryable /\ attempt <= self.max_retries
        THEN Retry
        ELSE Finish(RaisedApiError(mapped.code,
                                   PyStr(Get(decoded, "message", PyStrV(S_request_failed))),
                                   Some(status), mapped.retryable, decoded))

\* the transport returned a response
OnResponse(self, action, attempt, outcome) ==
    LET safe == safe_json(outcome.body)
        decoded == safe.v
        status == outcome.status
        mapped == map_error(status)
    IN  IF safe.exc # None
        THEN Finish(RaisedExc(safe.exc[1], <<>>))
        ELSE IF 200 <= status /\ status < 300
        THEN Finish(normalize_success(self, action, decoded))
        ELSE IF mapped.retryable /\ attempt < self.max_retries
        THEN Retry
        ELSE Finish(RaisedApiError(mapped.code,
                                   PyStr(Get(decoded, "message", PyStrV(S_request_failed))),
                                   Some(status), mapped.retryable, decoded))

RECURSIVE SumOfAttempts(_)
SumOfAttempts(S) ==
    IF S = {} THEN 0
    ELSE LET c == CHOOSE x \in S : TRUE
         IN  frame[c].attempt + SumOfAttempts(S \ {c})

\* a faulty OnOutcome: one attempt counter for all the calls of the client
OnOutcome_SharedBudget(self, action, attempt, outcome) ==
    IF outcome.k = "error"
    THEN OnTransportError(self, SumOfAttempts(DOMAIN frame), outcome)
    ELSE OnResponse(self, action, SumOfAttempts(DOMAIN frame), outcome)

OnOutcome(self, action, attempt, outcome) ==
    IF outcome.k = "error"
    THEN OnTransportError(self, attempt, outcome)
    ELSE OnResponse(self, action, attempt, outcome)

----------------------------------------------------------------------------
(* The inputs the model draws from *)

\* job keys given to the constructor: two that match the pattern, and keys
\* that are too short, too long, or hold a character outside [a-zA-Z0-9]
ValidJobKeys == { <<"a","b","c","1","2","3","d","e">>,
                  <<"A","B","C","d","e","f","1","2">> }
InvalidJobKeys ==
    { <<>>,
      <<"a","b","c","1","2","3","d">>,
      <<"a","b","c","1","2","3","d","e","f">>,
      <<"i","n","v","a","l","i","d","-","k","e","y">>,
      <<"a","b","c","1","2","3","d","_">>,
      <<"a","b","c"," ","2","3","d","e">>,
      <<"a","b","c","1","2","3","d","e","\n">>,
      <<"a","b","c","1","2","3","d","\n">> }
JobKeys == ValidJobKeys \cup InvalidJobKeys

Options(max_retries, retry_backoff_ms, retry_jitter_ms) ==
    [ base_url |-> None, timeout_ms |-> None, max_retries |-> max_retries,
      retry_backoff_ms |-> retry_backoff_ms, retry_jitter_ms |-> retry_jitter_ms,
      user_agent |-> None ]

\* the max_retries options: a negative one, and 0 .. MaxRetries
RetryOptions == {-1} \cup (0..MaxRetries)

S_custom_base_url == <<"h","t","t","p",":","/","/","h",":","8","/","v","1","/","/">>
S_custom_user_agent == <<"j","o","b","/","2">>

\* every option given: a base URL that ends in slashes, one retry, a short
\* backoff and a little jitter
CustomOptions ==
    [ base_url |-> Some(S_custom_base_url), timeout_ms |-> Some(100),
      max_retries |-> Some(1), retry_backoff_ms |-> Some(10),
      retry_jitter_ms |-> Some(3), user_agent |-> Some(S_custom_user_agent) ]

\* the options given to the constructor: none (every default), each
\* max_retries option without jitter, and every option given
OptionSets ==
    { Options(None, None, None), CustomOptions }
    \cup { Options(Some(r), None, Some(0)) : r \in RetryOptions }

S_hi == <<"h","i">>
S_bogus == <<"b","o","g","u","s">>

EndStatuses ==
    { S_success, S_fail, S_bogus, <<>>,
      <<" ","S","U","C","C","E","S","S","\n">>,
      <<"F","a","i","l">>,
      <<"s","u","c","c","e","s"," ","s">> }

ProgressCall(seq_or_options, message) ==
    [name |-> "progress", seq_or_options |-> seq_or_options, message |-> message]

PyDict(d) == [t |-> "dict", d |-> d]

\* longer than MaxMessageLen
LongMessageLen == 300

\* a message of n characters whose last character differs from the others
EdgeMessage(n) == Repeat("x", n - 1) \o <<"y">>

ProgressCalls ==
    { ProgressCall(PyNone, None),
      ProgressCall(PyNone, Some(S_hi)),
      ProgressCall(PyInt(0, 0), None),
      ProgressCall(PyInt(7, 0), Some(S_hi)),
      ProgressCall(PyInt(-1, 0), Some(S_hi)),
      ProgressCall(PyDict(EmptyDict), Some(S_hi)),
      ProgressCall(PyDict([seq |-> PyNone]), None),
      ProgressCall(PyDict([seq |-> PyInt(-1, 0)]), None),
      ProgressCall(PyDict([message |-> PyStrV(S_bogus)]), Some(S_hi)),
      ProgressCall(PyDict([seq |-> PyInt(50, 0),
                           message |-> PyStrV(Repeat("x", LongMessageLen))]), None),
      ProgressCall(PyNone, Some(EdgeMessage(MaxMessageLen))),
      ProgressCall(PyInt(7, 0), Some(EdgeMessage(MaxMessageLen + 1))),
      ProgressCall(PyDict([message |-> PyStrV(EdgeMessage(MaxMessageLen + 1))]),
                   Some(S_hi)) }

FacadeCalls ==
    { [name |-> "ping"], [name |-> "start"], [name |-> "success"], [name |-> "fail"] }
    \cup { [name |-> "end", status |-> st] : st \in EndStatuses }
    \cup ProgressCalls

\* what the transport does on one invocation (http.py, HttpClient.request):
\* it returns an HttpResponse, or it raises SdkError
Response(status, body) == [k |-> "response", status |-> status, body |-> body]
TransportError(text) == [k |-> "error", text |-> text]

Statuses == {199, 200, 299, 300, 400, 404, 429, 499, 500, 503}

S_socket_timeout == <<"s","o","c","k","e","t"," ","t","i","m","e","o","u","t">>
S_OK == <<"O","K">>
S_not_found == <<"J","o","b"," ","n","o","t"," ","f","o","u","n","d">>
S_timestamp == <<"2","0","2","6","-","0","2","-","2","5"," ","1","2",":","0","0",":","0","0">>

BodyEmpty == JObject(EmptyDict)
BodyFull ==
    JObject([ status |-> JString(S_OK), message |-> JString(S_OK),
              action |-> JString(S_ping), job_key |-> JString(<<"a","b","c","1","2","3","d","e">>),
              timestamp |-> JString(S_timestamp),
              processing_time_ms |-> JNumber(825, -2, FALSE) ])
BodyError == JObject([status |-> JString(S_fail), message |-> JString(S_not_found)])
\* {"processing_time_ms": 1000...0}, a 1 and FloatMaxExp10 + 1 zeros
BodyHugeInt == JObject([processing_time_ms |-> JNumber(1, FloatMaxExp10 + 1, TRUE)])

\* an integer of IntMaxStrDigits + 1 digits: valid JSON, and no object
BodyLongInt == JNumber(1, IntMaxStrDigits, TRUE)

Bodies == {BodyEmpty, BodyFull, BodyError, BodyHugeInt, JArray, NotJson, BodyLongInt, JDeep}

\* {"action": null, "job_key": null, "timestamp": null, "next_expected": null}
BodyNulls ==
    JObject([action |-> JNull, job_key |-> JNull, timestamp |-> JNull,
             next_expected |-> JNull])

Outcomes ==
    { Response(st, BodyEmpty) : st \in Statuses }
    \cup { Response(st, b) : st \in {200, 404, 503}, b \in Bodies }
    \cup { Response(200, BodyNulls) }
    \cup { TransportError(S_socket_timeout) }

\* the outcome as the history keeps it: the status, or the text of the
\* error the transport raised
Tag(outcome) ==
    IF outcome.k = "error" THEN [k |-> "error", text |-> outcome.text]
    ELSE [k |-> "status", status |-> outcome.status]

\* the jitter draws the model takes: the two ends of the range
JitterDraws(self) == {0, Max(0, self.retry_jitter_ms)}

----------------------------------------------------------------------------
(* The state machine *)

Calls == {1}

IdleFrame ==
    [ pc           |-> "idle",    \* idle, loop (at the head of the while), done
      call         |-> None,      \* the facade call in flight
      action       |-> <<>>,
      url          |-> <<>>,
      encoded_body |-> None,
      attempt      |-> 0,
      hist         |-> <<>>,      \* history: the outcome of each transport invocation
      sleeps       |-> <<>>,      \* history: the milliseconds of each backoff sleep
      sent         |-> <<>>,      \* history: the request of each transport invocation
      ended_by     |-> None,      \* history: the transport outcome the call ended on
      result       |-> NoResult ]

Init ==
    /\ ctor = [job_key |-> None, options |-> None, result |-> NoResult]
    /\ client = None
    /\ frame = [c \in Calls |-> IdleFrame]

\* PingClient(job_key, options)
Construct(job_key, opts) ==
    /\ ctor.result = NoResult
    /\ IF assert_job_key(job_key) # None
       THEN /\ ctor' = [job_key |-> Some(job_key), options |-> Some(opts),
                        result |-> RaisedExc(assert_job_key(job_key)[1], S_msg_job_key)]
            /\ client' = client
       ELSE /\ ctor' = [job_key |-> Some(job_key), options |-> Some(opts),
                        result |-> Returned(TRUE)]
            /\ client' = Some(NewClient(job_key, opts))
    /\ UNCHANGED frame

\* a faulty Invoke: _request builds the URL in self.base_url
Invoke_UrlInBaseUrl(c, call) ==
    /\ client # None
    /\ frame[c].pc = "idle"
    /\ LET self == client[1]
           f == Facade(self, call)
       IN  IF f.raise # None
           THEN /\ frame' = [frame EXCEPT ![c] =
                       [IdleFrame EXCEPT !.pc = "done", !.call = Some(call),
                                         !.result = f.raise[1]]]
                /\ client' = client
           ELSE /\ frame' = [frame EXCEPT ![c] =
                       [IdleFrame EXCEPT
                           !.pc = "loop", !.call = Some(call),
                           !.action = f.action,
                           !.url = self.base_url \o f.path,
                           !.encoded_body = IF f.body = None THEN None
                                            ELSE Some(json_dumps(f.body[1]))]]
                /\ client' = Some([self EXCEPT !.base_url = self.base_url \o f.path])
    /\ UNCHANGED ctor

\* a facade method is called: it raises, or it enters _request and reaches
\* the head of the loop.  (json.dumps of a dict of str and int does not
\* raise, so the SdkError of the encoding step has no input here.)
Invoke(c, call) ==
    /\ client # None
    /\ frame[c].pc = "idle"
    /\ LET self == client[1]
           f == Facade(self, call)
       IN  IF f.raise # None
           THEN frame' = [frame EXCEPT ![c] =
                    [IdleFrame EXCEPT !.pc = "done", !.call = Some(call),
                                      !.result = f.raise[1]]]
           ELSE LET payload == IF f.body = None THEN EmptyDict ELSE f.body[1]
                IN  frame' = [frame EXCEPT ![c] =
                        [IdleFrame EXCEPT
                            !.pc = "loop", !.call = Some(call),
                            !.action = f.action,
                            !.url = self.base_url \o f.path,
                            !.encoded_body = IF Cardinality(DOMAIN payload) = 0
                                             THEN None
                                             ELSE Some(json_dumps(payload)),
                            !.attempt = 0]]
    /\ UNCHANGED <<ctor, client>>

\* one turn of the while loop of _request: the transport is invoked and
\* answers `outcome`; the call ends, or it sleeps and is back at the head
ExchangeWith(c, outcome, jitter_ms) ==
    /\ frame[c].pc = "loop"
    /\ LET self == client[1]
           fr == frame[c]
           request == BuildRequest(self, fr.url, fr.encoded_body)
           d == OnOutcome(self, fr.action, fr.attempt, outcome)
           delay == backoff_delay_ms(self, fr.attempt + 1, jitter_ms)
       IN  IF d.retry
           THEN IF delay < 0
                THEN \* time.sleep of a negative length raises ValueError
                     frame' = [frame EXCEPT ![c].pc = "done",
                                  ![c].attempt = fr.attempt + 1,
                                  ![c].hist = Append(fr.hist, Tag(outcome)),
                                  ![c].sent = Append(fr.sent, request),
                                  ![c].ended_by = Some(outcome),
                                  ![c].result = RaisedExc("ValueError", <<>>)]
                ELSE frame' = [frame EXCEPT ![c].attempt = fr.attempt + 1,
                                  ![c].hist = Append(fr.hist, Tag(outcome)),
                                  ![c].sent = Append(fr.sent, request),
                                  ![c].sleeps = Append(fr.sleeps, delay)]
           ELSE frame' = [frame EXCEPT ![c].pc = "done",
                             ![c].hist = Append(fr.hist, Tag(outcome)),
                             ![c].sent = Append(fr.sent, request),
                             ![c].ended_by = Some(outcome),
                             ![c].result = d.result]
    /\ UNCHANGED <<ctor, client>>

\* the same, with the jitter random.randint draws
Exchange(c, outcome) ==
    /\ client # None
    /\ \E jitter_ms \in JitterDraws(client[1]) : ExchangeWith(c, outcome, jitter_ms)

\* the caller has the result; the frame of the call is gone
Return(c) ==
    /\ frame[c].pc = "done"
    /\ frame' = [frame EXCEPT ![c] = IdleFrame]
    /\ UNCHANGED <<ctor, client>>

Next ==
    \/ \E job_key \in JobKeys, opts \in OptionSets : Construct(job_key, opts)
    \/ \E c \in Calls, call \in FacadeCalls : Invoke(c, call)
    \/ \E c \in Calls, outcome \in Outcomes : Exchange(c, outcome)
    \/ \E c \in Calls : Return(c)

Spec == Init /\ [][Next]_vars

----------------------------------------------------------------------------
(* Two calls in flight on one client, as two threads make them *)

TwoCalls == {1, 2}

FewCalls ==
    { [name |-> "ping"],
      [name |-> "end", status |-> S_bogus],
      ProgressCall(PyInt(7, 0), Some(S_hi)) }

FewStatuses == {200, 404, 429, 503}

\* outcomes that differ in more than their body
FewOutcomes ==
    { Response(st, BodyEmpty) : st \in FewStatuses }
    \cup { TransportError(S_socket_timeout) }

\* a client is constructed, with max_retries in 0 .. MaxRetries, and no
\* call is in flight
TwoCallInit ==
    /\ \E r \in 0..MaxRetries :
          ctor = [job_key |-> Some(<<"a","b","c","1","2","3","d","e">>),
                  options |-> Some(Options(Some(r), None, Some(0))),
                  result |-> Returned(TRUE)]
    /\ client = Some(NewClient(ctor.job_key[1], ctor.options[1]))
    /\ frame = [c \in TwoCalls |-> IdleFrame]

TwoCallNext ==
    \/ \E c \in TwoCalls, call \in FewCalls : Invoke(c, call)
    \/ \E c \in TwoCalls, outcome \in FewOutcomes : Exchange(c, outcome)
    \/ \E c \in TwoCalls : Return(c)

TwoCallSpec == TwoCallInit /\ [][TwoCallNext]_vars

----------------------------------------------------------------------------
(* Vocabulary of the properties, written from spec.md and not from the     *)
(* operators above                                                          *)

Last(s) == s[Len(s)]

\* section 4.4 of the spec: the retryable outcomes
SpecRetryableStatus(st) == st = 429 \/ st >= 500
SpecRetryable(tag) == tag.k = "error" \/ SpecRetryableStatus(tag.status)
Spec2xx(tag) == tag.k = "status" /\ 200 <= tag.status /\ tag.status < 300
\* a non-2xx status the spec classifies as not retryable
SpecFatal(tag) ==
    tag.k = "status" /\ ~Spec2xx(tag) /\ ~SpecRetryableStatus(tag.status)

\* section 4.4 of the spec: the code of a status
SpecCode(st) ==
    CASE st = 400 -> "VALIDATION_ERROR"
      [] st = 404 -> "NOT_FOUND"
      [] st = 429 -> "RATE_LIMITED"
      [] st >= 500 -> "SERVER_ERROR"
      [] OTHER -> "UNKNOWN_ERROR"

IsApiError(r) == r.kind = "raise" /\ r.exc = "ApiError"
IsValidationError(r) == r.kind = "raise" /\ r.exc = "ValidationError"
\* the call raised what json.loads raised on the body of its last response
\* (_safe_json catches JSONDecodeError alone)
RaisedOfDecoding(r) == r.kind = "raise" /\ r.exc \in {"ValueError", "RecursionError"}
\* the call raised what float() raised on processing_time_ms
\* (_normalize_success catches TypeError and ValueError alone)
RaisedOfFloat(r) == r.kind = "raise" /\ r.exc = "OverflowError"

----------------------------------------------------------------------------
(* C1 *)

\* C1: with max_retries = R >= 0 a call makes at most R + 1 transport
\* invocations whatever the transport answers, and transport failures and
\* retryable statuses draw on one budget: every outcome that was retried,
\* of either kind, used one of the R retries the attempt counter counts.
C1_AtMostRPlusOneInvocations ==
    \A c \in Calls :
        (client # None /\ client[1].max_retries >= 0) =>
            /\ Len(frame[c].hist) <= client[1].max_retries + 1
            /\ frame[c].attempt <= client[1].max_retries
            /\ frame[c].pc = "loop" => Len(frame[c].hist) = frame[c].attempt
            /\ (frame[c].pc = "done" /\ frame[c].hist # <<>>) =>
                   Len(frame[c].hist) = frame[c].attempt + 1

\* a call that used its whole budget of 2 retries, one on a transport
\* failure and one on a retryable status
C1_Witness ==
    \E c \in Calls :
        /\ client # None /\ client[1].max_retries = 2
        /\ frame[c].pc = "done"
        /\ Len(frame[c].hist) = 3
        /\ \E i, j \in 1..2 : frame[c].hist[i].k = "error" /\ frame[c].hist[j].k = "status"

----------------------------------------------------------------------------
(* C2 *)

\* C2: a non-2xx status that is not retryable (400, 404, any other status
\* below 500 except 429) ends the call at once: it is the last outcome of
\* the call, whatever max_retries and the attempts used, and the call has
\* raised ApiError with retryable = false and that status; so a 400 or 404
\* as first response gives exactly one invocation.
C2_NonRetryableStatusEndsCall ==
    \A c \in Calls : \A i \in DOMAIN frame[c].hist :
        SpecFatal(frame[c].hist[i]) =>
            /\ i = Len(frame[c].hist)
            /\ frame[c].pc = "done"
            /\ IsApiError(frame[c].result)
            /\ frame[c].result.retryable = FALSE
            /\ frame[c].result.http_status = Some(frame[c].hist[i].status)

\* C2, the part the code keeps: the status ends the call at once, and the
\* call raises that ApiError unless json.loads raised on the body
C2_NonRetryableStatusEndsCallDecoded ==
    \A c \in Calls : \A i \in DOMAIN frame[c].hist :
        SpecFatal(frame[c].hist[i]) =>
            /\ i = Len(frame[c].hist)
            /\ frame[c].pc = "done"
            /\ \/ RaisedOfDecoding(frame[c].result)
               \/ /\ IsApiError(frame[c].result)
                  /\ frame[c].result.retryable = FALSE
                  /\ frame[c].result.http_status = Some(frame[c].hist[i].status)

\* a 404 that ended a call which had retries left and had already retried
C2_Witness ==
    \E c \in Calls :
        /\ client # None /\ client[1].max_retries = 2
        /\ frame[c].pc = "done"
        /\ Len(frame[c].hist) = 2
        /\ frame[c].attempt = 1
        /\ frame[c].hist[2] = [k |-> "status", status |-> 404]
        /\ IsApiError(frame[c].result) /\ ~frame[c].result.retryable

\* a 404 whose body is nested too deep ended a call with the RecursionError
\* of json.loads, and no ApiError
C2_DecodingRaised ==
    \E c \in Calls :
        /\ frame[c].ended_by = Some(Response(404, JDeep))
        /\ frame[c].hist = <<[k |-> "status", status |-> 404]>>
        /\ frame[c].result = RaisedExc("RecursionError", <<>>)

----------------------------------------------------------------------------
(* C3 *)

\* the first Len - 1 outcomes of the call are retryable statuses, no more
\* than max_retries of them, and the last one is a 2xx status
RetriedStatusesThen2xx(c) ==
    /\ client # None
    /\ frame[c].hist # <<>>
    /\ Len(frame[c].hist) - 1 <= client[1].max_retries
    /\ \A i \in 1..(Len(frame[c].hist) - 1) :
          frame[c].hist[i].k = "status" /\ SpecRetryableStatus(frame[c].hist[i].status)
    /\ Spec2xx(Last(frame[c].hist))

\* C3: when the first k responses of a call are retryable statuses
\* (k <= max_retries) and response k + 1 has a 2xx status, the call ends
\* with that invocation, k + 1 in all, and returns a successful normalized
\* result.
C3_RetriesThenSuccess ==
    \A c \in Calls :
        RetriedStatusesThen2xx(c) =>
            /\ frame[c].pc = "done"
            /\ frame[c].attempt = Len(frame[c].hist) - 1
            /\ frame[c].result.kind = "return"
            /\ frame[c].result.value.ok = TRUE

\* C3, the part the code keeps: the call ends with invocation k + 1, and
\* returns a successful result unless json.loads raised on the body or
\* float() raised OverflowError on the payload's processing_time_ms
C3_RetriesThenEnd ==
    \A c \in Calls :
        RetriedStatusesThen2xx(c) =>
            /\ frame[c].pc = "done"
            /\ frame[c].attempt = Len(frame[c].hist) - 1
            /\ \/ frame[c].result.kind = "return" /\ frame[c].result.value.ok = TRUE
               \/ RaisedOfFloat(frame[c].result)
               \/ RaisedOfDecoding(frame[c].result)

\* a 429 then a 200: two invocations and a successful result
C3_Witness ==
    \E c \in Calls :
        /\ RetriedStatusesThen2xx(c)
        /\ frame[c].hist = <<[k |-> "status", status |-> 429],
                             [k |-> "status", status |-> 200]>>
        /\ frame[c].result.kind = "return"

----------------------------------------------------------------------------
(* C4 *)

\* C4: a transport failure met with fewer than max_retries attempts used is
\* retried, so that one failure then a 2xx response, with max_retries >= 1,
\* gives exactly 2 invocations and a successful result; a transport failure
\* met with max_retries or more attempts used ends the call with
\* ApiError(NETWORK_ERROR, no HTTP status, retryable, the error's text).
C4_TransportFailure ==
    \A c \in Calls :
        /\ \A i \in DOMAIN frame[c].hist :
              frame[c].hist[i].k = "error" =>
                 IF i - 1 < client[1].max_retries
                 THEN \* retried: the call went on, with the attempt counted
                      /\ frame[c].attempt >= i
                      /\ frame[c].pc = "loop" \/ Len(frame[c].hist) > i
                 ELSE /\ i = Len(frame[c].hist)
                      /\ frame[c].pc = "done"
                      /\ IsApiError(frame[c].result)
                      /\ frame[c].result.code = "NETWORK_ERROR"
                      /\ frame[c].result.http_status = None
                      /\ frame[c].result.retryable = TRUE
                      /\ frame[c].result.message = frame[c].hist[i].text
        /\ ( /\ Len(frame[c].hist) = 2
             /\ frame[c].hist[1].k = "error"
             /\ Spec2xx(frame[c].hist[2]) ) =>
                /\ frame[c].pc = "done"
                /\ frame[c].result.kind = "return"
                /\ frame[c].result.value.ok = TRUE

\* C4, the part the code keeps: the same, but a call that ends on the 2xx
\* response may raise what json.loads raised on the body, or the
\* OverflowError of float(), instead of returning
C4_TransportFailureRetried ==
    \A c \in Calls :
        /\ \A i \in DOMAIN frame[c].hist :
              frame[c].hist[i].k = "error" =>
                 IF i - 1 < client[1].max_retries
                 THEN /\ frame[c].attempt >= i
                      /\ frame[c].pc = "loop" \/ Len(frame[c].hist) > i
                 ELSE /\ i = Len(frame[c].hist)
                      /\ frame[c].pc = "done"
                      /\ IsApiError(frame[c].result)
                      /\ frame[c].result.code = "NETWORK_ERROR"
                      /\ frame[c].result.http_status = None
                      /\ frame[c].result.retryable = TRUE
                      /\ frame[c].result.message = frame[c].hist[i].text
        /\ ( /\ Len(frame[c].hist) = 2
             /\ frame[c].hist[1].k = "error"
             /\ Spec2xx(frame[c].hist[2]) ) =>
                /\ frame[c].pc = "done"
                /\ \/ frame[c].result.kind = "return" /\ frame[c].result.value.ok = TRUE
                   \/ RaisedOfFloat(frame[c].result)
                   \/ RaisedOfDecoding(frame[c].result)

\* one transport failure, then a 200 that returns
C4_Witness ==
    \E c \in Calls :
        /\ frame[c].hist = <<[k |-> "error", text |-> S_socket_timeout],
                             [k |-> "status", status |-> 200]>>
        /\ frame[c].result.kind = "return"

----------------------------------------------------------------------------
(* C5 *)

\* the ApiError section 4.2 of the spec gives for a last outcome
SpecApiErrorOf(tag, r) ==
    /\ IsApiError(r)
    /\ IF tag.k = "error"
       THEN r.code = "NETWORK_ERROR" /\ r.http_status = None /\ r.retryable = TRUE
       ELSE /\ r.code = SpecCode(tag.status)
            /\ r.http_status = Some(tag.status)
            /\ r.retryable = SpecRetryableStatus(tag.status)

\* C5: with max_retries = R >= 0, a call whose every outcome is retryable
\* makes exactly R + 1 invocations and then raises the ApiError of its last
\* outcome alone; and an ApiError with retryable = true is raised only by a
\* call that has used its R retries.
C5_ExhaustionSurfacesLastOutcome ==
    \A c \in Calls :
        (client # None /\ client[1].max_retries >= 0) =>
            /\ (\A i \in DOMAIN frame[c].hist : SpecRetryable(frame[c].hist[i])) =>
                  \/ frame[c].pc \in {"idle", "loop"}
                        /\ Len(frame[c].hist) <= client[1].max_retries
                  \/ frame[c].pc = "done" /\ frame[c].hist = <<>>
                  \/ /\ frame[c].pc = "done"
                     /\ Len(frame[c].hist) = client[1].max_retries + 1
                     /\ SpecApiErrorOf(Last(frame[c].hist), frame[c].result)
            /\ (IsApiError(frame[c].result) /\ frame[c].result.retryable) =>
                  /\ frame[c].attempt = client[1].max_retries
                  /\ SpecRetryable(Last(frame[c].hist))

\* C5, the part the code keeps: the same of every call that did not end on
\* what json.loads raised on a body
C5_ExhaustionSurfacesLastDecoded ==
    \A c \in Calls :
        (client # None /\ client[1].max_retries >= 0 /\ ~RaisedOfDecoding(frame[c].result)) =>
            /\ (\A i \in DOMAIN frame[c].hist : SpecRetryable(frame[c].hist[i])) =>
                  \/ frame[c].pc \in {"idle", "loop"}
                        /\ Len(frame[c].hist) <= client[1].max_retries
                  \/ frame[c].pc = "done" /\ frame[c].hist = <<>>
                  \/ /\ frame[c].pc = "done"
                     /\ Len(frame[c].hist) = client[1].max_retries + 1
                     /\ SpecApiErrorOf(Last(frame[c].hist), frame[c].result)
            /\ (IsApiError(frame[c].result) /\ frame[c].result.retryable) =>
                  /\ frame[c].attempt = client[1].max_retries
                  /\ SpecRetryable(Last(frame[c].hist))

\* max_retries = 2: a transport failure, a 503 and a 429, and the call
\* raises the ApiError of the 429
C5_Witness ==
    \E c \in Calls :
        /\ client # None /\ client[1].max_retries = 2
        /\ frame[c].pc = "done"
        /\ frame[c].hist = <<[k |-> "error", text |-> S_socket_timeout],
                             [k |-> "status", status |-> 503],
                             [k |-> "status", status |-> 429]>>
        /\ IsApiError(frame[c].result)
        /\ frame[c].result.code = "RATE_LIMITED"

\* max_retries = 2: a first 503 whose body is one integer of 4301 digits
\* ended the call after 1 invocation with the ValueError of json.loads
C5_DecodingRaised ==
    \E c \in Calls :
        /\ client # None /\ client[1].max_retries = 2
        /\ frame[c].ended_by = Some(Response(503, BodyLongInt))
        /\ frame[c].hist = <<[k |-> "status", status |-> 503]>>
        /\ frame[c].result = RaisedExc("ValueError", <<>>)

----------------------------------------------------------------------------
(* C6 *)

\* C6: the classification of a status is the table of section 4.4 and
\* depends on nothing else: every ApiError raised on a response carries the
\* code and the retryable flag the table gives its status, and the statuses
\* a call retried are those the table marks retryable, in every state,
\* whatever calls were made before.
C6_ClassificationIsTheTable ==
    \A c \in Calls :
        /\ (IsApiError(frame[c].result) /\ frame[c].result.http_status # None) =>
              LET st == frame[c].result.http_status[1]
              IN  /\ frame[c].result.code = SpecCode(st)
                  /\ frame[c].result.retryable = SpecRetryableStatus(st)
                  /\ st = Last(frame[c].hist).status
        /\ \A i \in DOMAIN frame[c].hist :
              ( /\ frame[c].hist[i].k = "status"
                /\ (i < Len(frame[c].hist) \/ frame[c].pc = "loop") ) =>
                    SpecRetryableStatus(frame[c].hist[i].status)

\* a 500, the least status of the SERVER_ERROR row, ended a call
C6_Witness ==
    \E c \in Calls :
        /\ IsApiError(frame[c].result)
        /\ frame[c].result.http_status = Some(500)
        /\ frame[c].result.code = "SERVER_ERROR"
        /\ frame[c].result.retryable

----------------------------------------------------------------------------
(* C7 *)

\* the job identifier format of the spec: 8 characters of [A-Za-z0-9]
SpecJobKey(k) ==
    /\ Len(k) = 8
    /\ \A i \in 1..Len(k) :
          k[i] \in Range(UpperChars) \cup Range(LowerChars) \cup Range(DigitChars)

\* C7: constructing a client with a job identifier that is not exactly 8
\* ASCII letters or digits raises ValidationError, leaves no client and
\* makes no transport invocation; with an identifier that is, construction
\* succeeds and the client holds that identifier.
C7_JobKeyValidation ==
    /\ ctor.job_key = None => client = None
    /\ ctor.job_key # None =>
          IF SpecJobKey(ctor.job_key[1])
          THEN /\ ctor.result.kind = "return"
               /\ client # None
               /\ client[1].job_key = ctor.job_key[1]
          ELSE /\ IsValidationError(ctor.result)
               /\ client = None
               /\ \A c \in Calls : frame[c] = IdleFrame

\* construction refused 9 characters, the 8 of a valid key and a newline
C7_Witness ==
    /\ ctor.job_key = Some(<<"a","b","c","1","2","3","d","e","\n">>)
    /\ IsValidationError(ctor.result)
    /\ client = None

----------------------------------------------------------------------------
(* C8 *)

\* C8: a call returns a normalized result if and only if its last transport
\* invocation returned a status in [200, 300); every returned result has
\* ok = true, and every call that ends otherwise raises ValidationError,
\* ApiError or SdkError.
C8_ReturnsIffLast2xx ==
    \A c \in Calls :
        frame[c].pc = "done" =>
            /\ frame[c].result.kind = "return"
                  <=> (frame[c].hist # <<>> /\ Spec2xx(Last(frame[c].hist)))
            /\ frame[c].result.kind = "return" => frame[c].result.value.ok = TRUE
            /\ frame[c].result.kind # "return" =>
                  frame[c].result.kind = "raise" /\ frame[c].result.exc \in TypedFailures

\* C8, the part the code keeps: a result is returned only on a last status
\* in [200, 300) and has ok = true; a call whose last status is in
\* [200, 300) returns or raises the OverflowError of float(); every other
\* call raises a typed failure; all this unless json.loads raised on the
\* body of the last response.
C8_ReturnsOnlyOnLast2xx ==
    \A c \in Calls :
        frame[c].pc = "done" =>
            \/ RaisedOfDecoding(frame[c].result)
            \/ IF frame[c].hist # <<>> /\ Spec2xx(Last(frame[c].hist))
               THEN \/ frame[c].result.kind = "return" /\ frame[c].result.value.ok = TRUE
                    \/ RaisedOfFloat(frame[c].result)
               ELSE frame[c].result.kind = "raise" /\ frame[c].result.exc \in TypedFailures

\* a call that ended on a 200 without returning a result
C8_Witness ==
    \E c \in Calls :
        /\ frame[c].pc = "done"
        /\ frame[c].hist = <<[k |-> "status", status |-> 200]>>
        /\ frame[c].result.kind = "raise"
        /\ frame[c].result.exc = "OverflowError"

----------------------------------------------------------------------------
(* C9 *)

\* the statuses of EndStatuses trimmed and lowercased by hand: the status
\* the request carries, or None when that is neither success nor fail
SpecEndStatus(status) ==
    CASE status \in {S_success, <<" ","S","U","C","C","E","S","S","\n">>} -> Some(S_success)
      [] status \in {S_fail, <<"F","a","i","l">>} -> Some(S_fail)
      [] OTHER -> None

\* the call went to _request as action end on /ping/{jobKey}/end/{st},
\* with no body, and every request it sent went to that URL
EndRequest(c, st) ==
    LET url == client[1].base_url \o S_path_ping \o client[1].job_key
                   \o S_path_end \o st
    IN  /\ frame[c].pc \in {"loop", "done"}
        /\ ~IsValidationError(frame[c].result)
        /\ frame[c].action = S_end
        /\ frame[c].url = url
        /\ frame[c].encoded_body = None
        /\ \A i \in DOMAIN frame[c].sent :
              frame[c].sent[i].url = url /\ frame[c].sent[i].body = None

\* C9: end(status) trims and lowercases status; when the result is neither
\* "success" nor "fail" the call raises ValidationError before any transport
\* invocation, otherwise its request targets /ping/{jobKey}/end/{status as
\* normalized}; success() and fail() do what end("success") and end("fail")
\* do.
C9_EndStatus ==
    \A c \in Calls :
        frame[c].call # None =>
            LET call == frame[c].call[1]
            IN  /\ call.name = "end" =>
                      IF SpecEndStatus(call.status) = None
                      THEN /\ frame[c].pc = "done"
                           /\ IsValidationError(frame[c].result)
                           /\ frame[c].hist = <<>>
                           /\ frame[c].sent = <<>>
                      ELSE EndRequest(c, SpecEndStatus(call.status)[1])
                /\ call.name = "success" => EndRequest(c, S_success)
                /\ call.name = "fail" => EndRequest(c, S_fail)

\* end(" SUCCESS\n") sent its request to .../end/success and returned
C9_Witness ==
    \E c \in Calls :
        /\ frame[c].call = Some([name |-> "end", status |-> <<" ","S","U","C","C","E","S","S","\n">>])
        /\ frame[c].pc = "done"
        /\ Len(frame[c].sent) = 1
        /\ frame[c].result.kind = "return"

----------------------------------------------------------------------------
(* C10 *)

\* the call is progress with a negative seq: a bare negative integer, or a
\* structured input whose seq is one
NegativeSeq(call) ==
    /\ call.name = "progress"
    /\ \/ call.seq_or_options.t = "int" /\ call.seq_or_options.m < 0
       \/ /\ call.seq_or_options.t = "dict"
          /\ HasKey(call.seq_or_options.d, "seq")
          /\ call.seq_or_options.d.seq.t = "int"
          /\ call.seq_or_options.d.seq.m < 0

\* C10: progress with a negative seq, bare or in a structured input, raises
\* ValidationError and makes no transport invocation; and no call that
\* raised ValidationError, of any facade operation, made a transport
\* invocation.
C10_ValidationBeforeTransport ==
    \A c \in Calls :
        frame[c].call # None =>
            /\ NegativeSeq(frame[c].call[1]) =>
                  /\ frame[c].pc = "done"
                  /\ IsValidationError(frame[c].result)
            /\ IsValidationError(frame[c].result) =>
                  /\ frame[c].hist = <<>>
                  /\ frame[c].sent = <<>>
                  /\ frame[c].attempt = 0

\* progress({"seq": -1}) raised ValidationError with nothing sent
C10_Witness ==
    \E c \in Calls :
        /\ frame[c].call = Some(ProgressCall(PyDict([seq |-> PyInt(-1, 0)]), None))
        /\ IsValidationError(frame[c].result)
        /\ frame[c].sent = <<>>

----------------------------------------------------------------------------
(* C11 *)

\* the message a progress call was given: the one of the structured input
\* when it has one, else the positional one, else the empty one
SpecGivenMessage(call) ==
    IF call.seq_or_options.t = "dict" /\ HasKey(call.seq_or_options.d, "message")
    THEN call.seq_or_options.d.message.v
    ELSE IF call.message = None THEN <<>> ELSE call.message[1]

SpecMin(a, b) == IF a <= b THEN a ELSE b

\* the first min(len, 255) characters
SpecFirst255(s) == [i \in 1..SpecMin(Len(s), 255) |-> s[i]]

\* the message field of the body a call encoded
SentMessage(c) == frame[c].encoded_body[1].members.message.v

\* C11: the message a progress request carries in its body is the first
\* min(len, 255) characters of the message given, positional or structured:
\* never longer than 255, unchanged when at most 255 long; and a progress
\* call raises nothing but the ValidationError of a negative seq, so cutting
\* the message raises no error.
C11_MessageTruncation ==
    \A c \in Calls :
        (frame[c].call # None /\ frame[c].call[1].name = "progress") =>
            LET call == frame[c].call[1]
            IN  IF NegativeSeq(call)
                THEN IsValidationError(frame[c].result)
                ELSE /\ frame[c].encoded_body # None
                     /\ SentMessage(c) = SpecFirst255(SpecGivenMessage(call))
                     /\ Len(SentMessage(c)) <= 255
                     /\ Len(SpecGivenMessage(call)) <= 255 =>
                            SentMessage(c) = SpecGivenMessage(call)
                     /\ \A i \in DOMAIN frame[c].sent :
                            frame[c].sent[i].body = frame[c].encoded_body

\* a positional message of 256 characters went out as its first 255, the
\* differing last character cut off
C11_Witness ==
    \E c \in Calls :
        /\ frame[c].call = Some(ProgressCall(PyInt(7, 0), Some(EdgeMessage(MaxMessageLen + 1))))
        /\ Len(frame[c].sent) = 1
        /\ frame[c].sent[1].body = Some(JObject([message |-> JString(Repeat("x", 255))]))

----------------------------------------------------------------------------
(* C12 *)

\* the seq a progress call was given: the bare integer, or the seq of the
\* structured input; none when there is no input or no seq in it
SpecGivenSeq(call) ==
    IF call.seq_or_options.t = "int" THEN Some(call.seq_or_options.m)
    ELSE IF /\ call.seq_or_options.t = "dict"
            /\ HasKey(call.seq_or_options.d, "seq")
            /\ call.seq_or_options.d.seq.t = "int"
    THEN Some(call.seq_or_options.d.seq.m)
    ELSE None

\* /ping/{jobKey}/progress under the base URL of the client
SpecProgressUrl == client[1].base_url \o S_path_ping \o client[1].job_key \o S_path_progress

\* C12: a progress call with a seq, bare or structured and 0 included,
\* targets /ping/{jobKey}/progress/{seq} and its body holds the message
\* field and nothing else; one without a seq (no input, or a structured
\* input without seq) targets /ping/{jobKey}/progress and its body holds
\* the message field.
C12_ProgressPathAndBody ==
    \A c \in Calls :
        (/\ frame[c].call # None
         /\ frame[c].call[1].name = "progress"
         /\ ~NegativeSeq(frame[c].call[1])) =>
            LET seq == SpecGivenSeq(frame[c].call[1])
                body == frame[c].encoded_body
            IN  /\ body # None /\ body[1].j = "object"
                /\ IF seq # None
                   THEN /\ frame[c].url = SpecProgressUrl \o S_slash \o IntToStr(seq[1])
                        /\ DOMAIN body[1].members = {"message"}
                   ELSE /\ frame[c].url = SpecProgressUrl
                        /\ "message" \in DOMAIN body[1].members
                /\ \A i \in DOMAIN frame[c].sent :
                       /\ frame[c].sent[i].url = frame[c].url
                       /\ frame[c].sent[i].body = body

\* progress(0) went to .../progress/0 with the body {"message": ""}
C12_Witness ==
    \E c \in Calls :
        /\ Len(frame[c].sent) = 1
        /\ frame[c].call = Some(ProgressCall(PyInt(0, 0), None))
        /\ frame[c].sent[1].url =
              S_default_base_url \o <<"/","p","i","n","g","/">> \o client[1].job_key
                  \o <<"/","p","r","o","g","r","e","s","s","/","0">>
        /\ frame[c].sent[1].body = Some(JObject([message |-> JString(<<>>)]))

----------------------------------------------------------------------------
(* C13 *)

\* C13: the body of a progress request has a progress field echoing the
\* integer when the call was given a bare integer, and has no progress
\* field when it was given a structured input.
C13_BareIntegerEcho ==
    \A c \in Calls :
        (/\ frame[c].call # None
         /\ frame[c].call[1].name = "progress"
         /\ frame[c].encoded_body # None) =>
            LET input == frame[c].call[1].seq_or_options
                members == frame[c].encoded_body[1].members
            IN  /\ input.t = "int" =>
                      /\ "progress" \in DOMAIN members
                      /\ members.progress = JNumber(input.m, input.e, TRUE)
                /\ input.t = "dict" => "progress" \notin DOMAIN members

\* the part of C13 the code keeps: the body of a progress request given a
\* structured input, or no input, has no progress field
C13_NoEchoOfStructuredInput ==
    \A c \in Calls :
        (/\ frame[c].call # None
         /\ frame[c].call[1].name = "progress"
         /\ frame[c].call[1].seq_or_options.t # "int"
         /\ frame[c].encoded_body # None) =>
            "progress" \notin DOMAIN frame[c].encoded_body[1].members

\* progress(7, "hi") sent the body {"message": "hi"}, without the echo
C13_Witness ==
    \E c \in Calls :
        /\ frame[c].call = Some(ProgressCall(PyInt(7, 0), Some(S_hi)))
        /\ Len(frame[c].sent) = 1
        /\ frame[c].sent[1].body = Some(JObject([message |-> JString(S_hi)]))

----------------------------------------------------------------------------
(* C14 *)

\* the body of the response the call ended on is not valid JSON, or is
\* valid JSON and no object
EndedOnNonObject(c) ==
    /\ frame[c].pc = "done"
    /\ frame[c].ended_by # None
    /\ frame[c].ended_by[1].k = "response"
    /\ frame[c].ended_by[1].body.j # "object"

SpecPlaceholder == [message |-> PyStrV(S_invalid_json)]

\* what C14 says of a call that ended on such a body
PlaceholderTaken(c) ==
    IF Spec2xx(Last(frame[c].hist))
    THEN /\ frame[c].result.kind = "return"
         /\ frame[c].result.value.ok = TRUE
         /\ frame[c].result.value.raw = SpecPlaceholder
    ELSE /\ IsApiError(frame[c].result)
         /\ frame[c].result.code = SpecCode(Last(frame[c].hist).status)
         /\ frame[c].result.http_status = Some(Last(frame[c].hist).status)
         /\ frame[c].result.message = S_invalid_json
         /\ frame[c].result.raw = SpecPlaceholder

\* C14: a response body that is not valid JSON, or is not a JSON object,
\* is no failure of its own: the payload is the placeholder {message:
\* "Invalid JSON response"}; on a 2xx status the call returns a successful
\* result whose raw is the placeholder, on another status the call raises
\* the ApiError of the status with the message "Invalid JSON response".
C14_InvalidBodyNeverSurfaces ==
    \A c \in Calls : EndedOnNonObject(c) => PlaceholderTaken(c)

\* C14, the part the code keeps: the same, unless json.loads raised
\* something other than JSONDecodeError on the body
C14_PlaceholderUnlessDecodingRaised ==
    \A c \in Calls :
        EndedOnNonObject(c) => (PlaceholderTaken(c) \/ RaisedOfDecoding(frame[c].result))

\* a 404 whose body is one integer of 4301 digits: the call raised the
\* ValueError of json.loads, and no ApiError
C14_Witness ==
    \E c \in Calls :
        /\ frame[c].ended_by = Some(Response(404, BodyLongInt))
        /\ frame[c].result = RaisedExc("ValueError", <<>>)
        /\ Len(frame[c].sent) = 1

\* a 200 whose body is not JSON: the call returned the placeholder as raw
C14_PlaceholderReturned ==
    \E c \in Calls :
        /\ frame[c].ended_by = Some(Response(200, NotJson))
        /\ frame[c].result.kind = "return"
        /\ frame[c].result.value.raw = SpecPlaceholder

----------------------------------------------------------------------------
(* C15 *)

\* the three ways section 5 of the spec lets a call end, for a call that
\* reached the transport
EndsInSuccess(c) ==
    /\ Spec2xx(Last(frame[c].hist))
    /\ frame[c].result.kind = "return"
EndsInNonRetryableFailure(c) ==
    /\ SpecFatal(Last(frame[c].hist))
    /\ IsApiError(frame[c].result) /\ ~frame[c].result.retryable
EndsInExhaustion(c) ==
    /\ SpecRetryable(Last(frame[c].hist))
    /\ frame[c].attempt >= client[1].max_retries
    /\ IsApiError(frame[c].result) /\ frame[c].result.retryable

\* C15: every call terminates, and a call that reached the transport has
\* ended in exactly one of success, a non-retryable failure, or exhaustion
\* of the retry budget, whatever the transport answered.  (The three are
\* exclusive by the last outcome; the formula states that one of them is
\* the case.  That the call ends at all is C15_CallTerminates.)
C15_EndsInOneOfThree ==
    \A c \in Calls :
        (frame[c].pc = "done" /\ frame[c].hist # <<>>) =>
            \/ EndsInSuccess(c)
            \/ EndsInNonRetryableFailure(c)
            \/ EndsInExhaustion(c)

\* C15, the part the code keeps: the same, unless json.loads or float()
\* raised on the last response
C15_EndsInOneOfThreeOrUncaught ==
    \A c \in Calls :
        (frame[c].pc = "done" /\ frame[c].hist # <<>>) =>
            \/ EndsInSuccess(c)
            \/ EndsInNonRetryableFailure(c)
            \/ EndsInExhaustion(c)
            \/ RaisedOfDecoding(frame[c].result)
            \/ RaisedOfFloat(frame[c].result)

\* the transport is the one thing a call waits for: every invocation
\* returns a response or raises
FairSpec ==
    Spec /\ \A c \in Calls : WF_vars(\E outcome \in Outcomes : Exchange(c, outcome))

\* C15, the part the code keeps: under FairSpec, a call in the loop of
\* _request ends
C15_CallTerminates ==
    \A c \in Calls : (frame[c].pc = "loop") ~> (frame[c].pc = "done")

\* a 503 was retried, the 200 that followed carried an integer beyond the
\* range of a float, and the call ended in none of the three ways
C15_Witness ==
    \E c \in Calls :
        /\ frame[c].pc = "done"
        /\ frame[c].hist = <<[k |-> "status", status |-> 503],
                             [k |-> "status", status |-> 200]>>
        /\ frame[c].ended_by = Some(Response(200, BodyHugeInt))
        /\ RaisedOfFloat(frame[c].result)

----------------------------------------------------------------------------
(* C16 *)

\* the outcome a tag of FewOutcomes stands for
OutcomeOf(tag) ==
    IF tag.k = "error" THEN TransportError(tag.text) ELSE Response(tag.status, BodyEmpty)

\* a call run alone on the outcomes tags[i], tags[i + 1], ...: where it
\* stands when they are used up, or how it ended and on which of them
RECURSIVE Replay(_, _, _, _, _)
Replay(self, action, tags, i, attempt) ==
    IF i > Len(tags)
    THEN [pc |-> "loop", attempt |-> attempt, invocations |-> Len(tags), result |-> NoResult]
    ELSE LET d == OnOutcome(self, action, attempt, OutcomeOf(tags[i]))
         IN  IF d.retry
             THEN Replay(self, action, tags, i + 1, attempt + 1)
             ELSE [pc |-> "done", attempt |-> attempt, invocations |-> i, result |-> d.result]

Alone(self, call, tags) ==
    IF Facade(self, call).raise # None
    THEN [pc |-> "done", attempt |-> 0, invocations |-> 0,
          result |-> Facade(self, call).raise[1]]
    ELSE Replay(self, Facade(self, call).action, tags, 1, 0)

\* C16: with two calls interleaved on one client in any order, each call
\* is where it would be had it run alone on the outcomes the transport gave
\* to it: the same number of invocations, the same retries counted, the
\* same result; what the other call used of its budget, now or in an
\* earlier call of the same thread, changes nothing.
C16_CallsDoNotInterfere ==
    \A c \in DOMAIN frame :
        frame[c].call # None =>
            LET alone == Alone(client[1], frame[c].call[1], frame[c].hist)
            IN  /\ frame[c].pc = alone.pc
                /\ Len(frame[c].hist) = alone.invocations
                /\ Len(frame[c].sent) = alone.invocations
                /\ frame[c].attempt = alone.attempt
                /\ frame[c].result = alone.result

\* max_retries = 2: one call has used both its retries and is in the loop,
\* and the other, started meanwhile, used both of its own and returned
C16_Witness ==
    /\ DOMAIN frame = TwoCalls
    /\ client[1].max_retries = 2
    /\ frame[1].pc = "loop" /\ frame[1].attempt = 2
    /\ frame[2].pc = "done" /\ frame[2].attempt = 2
    /\ Len(frame[2].hist) = 3
    /\ frame[2].result.kind = "return"

----------------------------------------------------------------------------
(* C17 *)

\* C17: no facade operation changes the configuration of the client: once
\* constructed, the client keeps the job identifier, base URL, timeout,
\* max_retries, backoff, jitter and user agent it has, through every call,
\* whether the call returns, fails validation or exhausts its retries.
\* The step that makes the client gives it the values of its construction
\* and a job identifier of 8 alphanumeric characters, and no later step
\* changes the client or the record of its construction.
C17_ConfigurationUnchanged ==
    [][ /\ client # None => client' = client /\ ctor' = ctor
        /\ client' # client =>
              /\ client'[1] = NewClient(ctor'.job_key[1], ctor'.options[1])
              /\ SpecJobKey(client'[1].job_key) ]_vars

\* a call that used its one retry and raised, on a client constructed with
\* every option given, which holds the values of its construction
C17_Witness ==
    \E c \in Calls :
        /\ ctor.options = Some(CustomOptions)
        /\ frame[c].pc = "done"
        /\ Len(frame[c].hist) = 2
        /\ IsApiError(frame[c].result) /\ frame[c].result.retryable
        /\ client[1].base_url = <<"h","t","t","p",":","/","/","h",":","8","/","v","1">>
        /\ client[1].timeout_ms = 100
        /\ client[1].max_retries = 1
        /\ client[1].retry_backoff_ms = 10
        /\ client[1].retry_jitter_ms = 3
        /\ client[1].user_agent = S_custom_user_agent

----------------------------------------------------------------------------
(* C18 *)

\* the str field k of a payload, or the default when the payload has none
SpecFieldOr(payload, k, default) ==
    IF HasKey(payload, k) /\ payload[k].t # "NoneType" THEN payload[k].v ELSE default

\* the action name of a facade operation
SpecActionName(call) ==
    CASE call.name = "ping" -> <<"p","i","n","g">>
      [] call.name = "start" -> <<"s","t","a","r","t">>
      [] call.name \in {"end", "success", "fail"} -> <<"e","n","d">>
      [] call.name = "progress" -> <<"p","r","o","g","r","e","s","s">>

\* the payload json.loads decoded from the body the call ended on, or the
\* placeholder
DecodedPayload(c) ==
    IF frame[c].ended_by[1].body.j = "object"
    THEN [k \in DOMAIN frame[c].ended_by[1].body.members |->
             FromJson(frame[c].ended_by[1].body.members[k])]
    ELSE SpecPlaceholder

\* C18: in a result a call returned, action is the action field of the
\* payload or, when it has none, the action name of the operation; jobKey
\* is its job_key field or the job identifier of the client; timestamp its
\* timestamp field or the empty string; nextExpected is null when it has
\* no next_expected; raw is the decoded payload.
C18_NormalizedFields ==
    \A c \in Calls :
        (frame[c].pc = "done" /\ frame[c].result.kind = "return") =>
            LET r == frame[c].result.value
                payload == DecodedPayload(c)
            IN  /\ r.action = SpecFieldOr(payload, "action", SpecActionName(frame[c].call[1]))
                /\ r.jobKey = SpecFieldOr(payload, "job_key", client[1].job_key)
                /\ r.timestamp = SpecFieldOr(payload, "timestamp", <<>>)
                /\ ~HasKey(payload, "next_expected") => r.nextExpected = None
                /\ r.raw = payload

\* C18, the part the code keeps: the same for the fields that are absent
\* or hold a str; a field that holds null gives the str "None"
C18_NormalizedFieldsNullAsNone ==
    \A c \in Calls :
        (frame[c].pc = "done" /\ frame[c].result.kind = "return") =>
            LET r == frame[c].result.value
                payload == DecodedPayload(c)
                Field(k, default) ==
                    IF HasKey(payload, k) /\ payload[k].t = "NoneType"
                    THEN <<"N","o","n","e">>
                    ELSE SpecFieldOr(payload, k, default)
            IN  /\ r.action = Field("action", SpecActionName(frame[c].call[1]))
                /\ r.jobKey = Field("job_key", client[1].job_key)
                /\ r.timestamp = Field("timestamp", <<>>)
                /\ ~HasKey(payload, "next_expected") => r.nextExpected = None
                /\ r.raw = payload

\* start() ended on a 200 whose payload holds null fields, and returned
\* the str "None" for action, jobKey and timestamp
C18_Witness ==
    \E c \in Calls :
        /\ frame[c].call = Some([name |-> "start"])
        /\ frame[c].ended_by = Some(Response(200, BodyNulls))
        /\ frame[c].result.kind = "return"
        /\ frame[c].result.value.action = <<"N","o","n","e">>
        /\ frame[c].result.value.jobKey = <<"N","o","n","e">>
        /\ frame[c].result.value.timestamp = <<"N","o","n","e">>

\* success() ended on a 200 with an empty payload, and returned the action
\* name "end", the job identifier of the client and the empty timestamp
C18_DefaultsTaken ==
    \E c \in Calls :
        /\ frame[c].call = Some([name |-> "success"])
        /\ frame[c].ended_by = Some(Response(200, BodyEmpty))
        /\ frame[c].result.kind = "return"
        /\ frame[c].result.value.action = <<"e","n","d">>
        /\ frame[c].result.value.jobKey = client[1].job_key
        /\ frame[c].result.value.timestamp = <<>>
        /\ frame[c].result.value.nextExpected = None

----------------------------------------------------------------------------
(* C19 *)

\* C19: within one call there is exactly one backoff sleep between every
\* two consecutive transport invocations, none before the first and none
\* after the last; the sleep before the n-th retry lasts
\* backoff_base_ms * 2^(n-1) plus an integer jitter in [0, jitter_ms], so
\* that it lies in [backoff_base_ms * 2^(n-1),
\* backoff_base_ms * 2^(n-1) + jitter_ms].
C19_BackoffSleeps ==
    \A c \in Calls :
        /\ frame[c].hist = <<>> => frame[c].sleeps = <<>>
        /\ (frame[c].pc = "done" /\ frame[c].hist # <<>>) =>
              Len(frame[c].sleeps) = Len(frame[c].hist) - 1
        /\ frame[c].pc = "loop" => Len(frame[c].sleeps) = Len(frame[c].hist)
        /\ \A n \in DOMAIN frame[c].sleeps :
              LET base == client[1].retry_backoff_ms * 2^(n - 1)
              IN  /\ frame[c].sleeps[n] - base \in Nat
                  /\ base <= frame[c].sleeps[n]
                  /\ frame[c].sleeps[n] <= base + client[1].retry_jitter_ms

\* the default backoff of 250 ms and jitter of 100 ms: three invocations
\* with a sleep of 350 ms and then one of 500 ms between them
C19_Witness ==
    \E c \in Calls :
        /\ client # None
        /\ client[1].retry_backoff_ms = 250 /\ client[1].retry_jitter_ms = 100
        /\ frame[c].pc = "done"
        /\ Len(frame[c].hist) = 3
        /\ frame[c].sleeps = <<350, 500>>

----------------------------------------------------------------------------
(* C20 *)

\* the path of the action a call asks for, under /ping/{jobKey}
SpecPath(call) ==
    LET root == <<"/","p","i","n","g","/">> \o client[1].job_key
    IN  CASE call.name = "ping" -> root
          [] call.name = "start" -> root \o <<"/","s","t","a","r","t">>
          [] call.name = "success" -> root \o <<"/","e","n","d","/">> \o S_success
          [] call.name = "fail" -> root \o <<"/","e","n","d","/">> \o S_fail
          [] call.name = "end" ->
                root \o <<"/","e","n","d","/">> \o SpecEndStatus(call.status)[1]
          [] call.name = "progress" ->
                IF SpecGivenSeq(call) = None
                THEN root \o <<"/","p","r","o","g","r","e","s","s">>
                ELSE root \o <<"/","p","r","o","g","r","e","s","s","/">>
                          \o IntToStr(SpecGivenSeq(call)[1])

\* the request the spec gives a call: POST to the base URL followed by the
\* path, the three headers, no body but for progress, the timeout
SpecRequestOf(call, request) ==
    /\ request.method = <<"P","O","S","T">>
    /\ request.url = client[1].base_url \o SpecPath(call)
    /\ DOMAIN request.headers = {"ContentType", "Accept", "UserAgent"}
    /\ request.headers.ContentType =
          <<"a","p","p","l","i","c","a","t","i","o","n","/","j","s","o","n">>
    /\ request.headers.Accept = request.headers.ContentType
    /\ request.headers.UserAgent = client[1].user_agent
    /\ request.timeout_ms = client[1].timeout_ms
    /\ IF call.name = "progress"
       THEN request.body # None /\ request.body[1].j = "object"
       ELSE request.body = None

\* C20: every transport invocation of one call carries the same request:
\* POST, the base URL followed by the path of the action, the three
\* headers, the timeout of the client, and the body encoded before the
\* first invocation (none for ping, start and end, a JSON object for
\* progress); a retry changes no part of it.
C20_SameRequestEveryAttempt ==
    \A c \in Calls : \A i \in DOMAIN frame[c].sent :
        /\ SpecRequestOf(frame[c].call[1], frame[c].sent[i])
        /\ frame[c].sent[i] = frame[c].sent[1]
        /\ frame[c].sent[i].body = frame[c].encoded_body

\* a client given every option: progress(7, "hi") was retried once, and
\* both invocations carried the request to the stripped base URL, with the
\* configured user agent and timeout and the body {"message":"hi"}
C20_Witness ==
    \E c \in Calls :
        /\ ctor.options = Some(CustomOptions)
        /\ frame[c].call = Some(ProgressCall(PyInt(7, 0), Some(S_hi)))
        /\ Len(frame[c].sent) = 2
        /\ frame[c].sent[2] = frame[c].sent[1]
        /\ frame[c].sent[2].url =
              <<"h","t","t","p",":","/","/","h",":","8","/","v","1">>
                 \o <<"/","p","i","n","g","/">> \o client[1].job_key
                 \o <<"/","p","r","o","g","r","e","s","s","/","7">>
        /\ frame[c].sent[2].headers.UserAgent = <<"j","o","b","/","2">>
        /\ frame[c].sent[2].timeout_ms = 100
        /\ frame[c].sent[2].body = Some(JObject([message |-> JString(S_hi)]))

====
